---- MODULE Spec2Model ----
(***************************************************************************)
(* Reliability based CMA-ES learner of pypuf                               *)
(* (pypuf/learner/evolution_strategies/cmaes.py).                          *)
(*                                                                         *)
(* Four specifications share the variables of this module:                 *)
(*   Spec           ReliabilityBasedCMAES.learn, the chain search loop,    *)
(*                  the chain pool and the orientation step;               *)
(*   SpecObjective  ReliabilityBasedCMAES.objective on one population;     *)
(*   SpecSearch     one optimizer run as learn() configures it;            *)
(*   SpecStag       is_iteration_stagnated applied to growing histories.   *)
(*                                                                         *)
(* Real numbers are integers here.  Weights, delay differences and         *)
(* reliabilities are small integers; the floating point results of         *)
(* tf_pearsonr and objective are fixed point numbers with Scale units per  *)
(* 1.0, and carry a nan flag because 0.0/0.0 is NaN in IEEE arithmetic.    *)
(***************************************************************************)
EXTENDS Integers, Sequences, FiniteSets, TLC

\* ------------------------------------------------------------------ bounds
n == 3
k == 2
NumChallenges == 3
Repetitions == 3
MaxRetries == 1
SeedSpace == 4
PopSize == 2
MaxGenerations == 102
MaxAbortIter == 3
MaxAbortDelta == 2
Scale == 100
MaxSamples == 3
MaxEpochs == 2
BatchNum == 2
MaxNumChals == 3
MaxRounds == 3

\* ------------------------------------------------------- program constants
InitialEpsilon == 2
MinHistory == 100
ThresholdNum == 1
ThresholdDen == 2

VARIABLES
    pc,                  \* position of learn()
    pool,                \* learn: the list of accepted chains
    n_chain,             \* learn: the chain slot index
    w,                   \* learn: the chain found by the last attempt
    current_challenges,  \* self.current_challenges
    prng,                \* self.prng: [seed, pos], pos = values drawn so far
    cma_options,         \* learn: the dict built for each attempt
    init_state,          \* learn: the initial solution of the attempt
    cma,                 \* learn: arguments the optimizer was constructed with
    model,               \* the weight_array of the LTFArray learn() builds
    responses,           \* self.training_set.responses
    linearized_challenges, \* self.linearized_challenges, shape (N, k, n)
    puf_reliabilities,   \* self.puf_reliabilities
    stats,               \* num_iterations, stops, num_abortions, num_learned
    state,               \* objective: the population handed in
    costs,               \* objective: the returned tensor
    model_reliabilities, \* objective: the thresholded delay differences
    hist,                \* es.fit.hist, best cost of every generation
    abort_iter,          \* self.abort_iter
    abort_delta,         \* self.abort_delta
    stagnated,           \* value returned by the last is_iteration_stagnated
    es_stop,             \* the optimizer run has terminated
    arg,                 \* argument of the function applied on its own
    ret,                 \* values that function has returned so far
    train,               \* pipeline.train: its arguments and locals
    gen                  \* generate_reliable_challenges_for_IPUF: its locals

learnVars == <<pc, pool, n_chain, w, current_challenges, prng, cma_options,
               init_state, cma, model, responses, linearized_challenges,
               puf_reliabilities, stats>>
objVars == <<state, costs, model_reliabilities>>
esVars == <<hist, abort_iter, abort_delta, stagnated, es_stop>>
pureVars == <<arg, ret>>
expVars == <<train, gen>>
vars == <<learnVars, objVars, esVars, pureVars, expVars>>

\* ----------------------------------------------------------------- helpers
RECURSIVE SumSeq(_)
SumSeq(s) == IF s = <<>> THEN 0 ELSE Head(s) + SumSeq(Tail(s))

Abs(x) == IF x < 0 THEN -x ELSE x

Dot(a, b) == SumSeq([i \in 1..Len(a) |-> a[i] * b[i]])

Neg(v) == [i \in 1..Len(v) |-> -v[i]]

\* values a weight takes in this model
WeightVals == {-1, 0, 1}

Sign(x) == IF x > 0 THEN 1 ELSE IF x < 0 THEN -1 ELSE 0

RECURSIVE ProdSeq(_)
ProdSeq(s) == IF s = <<>> THEN 1 ELSE Head(s) * ProdSeq(Tail(s))

Count(row, v) == Cardinality({j \in DOMAIN row : row[j] = v})

\* ------------------------------------------------------------ training set
\* The challenges of the training set: NumChallenges rows over {+1,-1}.
challenges ==
    [c \in 1..NumChallenges |-> [j \in 1..n |-> IF (c + j) % 3 = 0 THEN -1 ELSE 1]]

\* Repeated measurements the oracle may have produced: a noise free matrix
\* (every repetition of row c is (-1)^c) and the same matrix with the first
\* repetition of every row inverted.
Measured(noisy) ==
    [c \in 1..NumChallenges |->
        [j \in 1..Repetitions |->
            IF c % 2 = 0 THEN (IF j <= noisy THEN -1 ELSE 1)
                         ELSE (IF j <= noisy THEN 1 ELSE -1)]]

ResponseMatrices == {Measured(0), Measured(1)}

Seeds == {0, 1}

\* self.transform: chain l sees the challenge rotated by l - 1 stages.
transform(chals, kk) ==
    [c \in 1..Len(chals) |->
        [l \in 1..kk |->
            [j \in 1..Len(chals[c]) |->
                chals[c][((j + l - 2) % Len(chals[c])) + 1]]]]

\* pypuf.tools.transform_challenge_11_to_01: +1 becomes 0, -1 becomes 1.
transform_challenge_11_to_01(bits) ==
    [r \in DOMAIN bits |->
        [j \in DOMAIN bits[r] |->
            IF bits[r][j] = 1 THEN 0 ELSE IF bits[r][j] = -1 THEN 1 ELSE bits[r][j]]]

\* variant: the deviation keeps its sign
reliabilities_PUF_signed(response_bits) ==
    LET bits == IF \E r \in DOMAIN response_bits :
                     \E j \in DOMAIN response_bits[r] : response_bits[r][j] = -1
                THEN transform_challenge_11_to_01(response_bits)
                ELSE response_bits
    IN  [r \in DOMAIN bits |-> Len(bits[r]) - 2 * SumSeq(bits[r])]

\* variant: the bits are summed as handed in
reliabilities_PUF_raw(response_bits) ==
    [r \in DOMAIN response_bits |->
        Abs(Len(response_bits[r]) - 2 * SumSeq(response_bits[r]))]

\* variant: shape[1] // 2
reliabilities_PUF_floordiv(response_bits) ==
    LET bits == IF \E r \in DOMAIN response_bits :
                     \E j \in DOMAIN response_bits[r] : response_bits[r][j] = -1
                THEN transform_challenge_11_to_01(response_bits)
                ELSE response_bits
    IN  [r \in DOMAIN bits |->
            2 * Abs((Len(bits[r]) \div 2) - SumSeq(bits[r]))]

\* variant: shape[0] / 2
reliabilities_PUF_shape0(response_bits) ==
    LET bits == IF \E r \in DOMAIN response_bits :
                     \E j \in DOMAIN response_bits[r] : response_bits[r][j] = -1
                THEN transform_challenge_11_to_01(response_bits)
                ELSE response_bits
    IN  [r \in DOMAIN bits |-> Abs(Len(bits) - 2 * SumSeq(bits[r]))]

\* reliabilities_PUF.  The result is in halves: the entry for a row is
\* 2 * |shape[1]/2 - sum(row)| = |shape[1] - 2*sum(row)|.
reliabilities_PUF(response_bits) ==
    LET bits == IF \E r \in DOMAIN response_bits :
                     \E j \in DOMAIN response_bits[r] : response_bits[r][j] = -1
                THEN transform_challenge_11_to_01(response_bits)
                ELSE response_bits
    IN  [r \in DOMAIN bits |-> Abs(Len(bits[r]) - 2 * SumSeq(bits[r]))]

\* ----------------------------------------------------------------- PRNG
\* np.random.RandomState(seed): a deterministic stream; MT(seed, pos) is the
\* pos-th raw value of the stream of that seed.
MT(seed, pos) == (7 * seed + 3 * pos + (pos * pos) + 1) % SeedSpace

\* prng.randint(2 ** 32), scaled to 0..SeedSpace-1
randint(g) == MT(g.seed, g.pos + 1)

\* prng.normal(0, 1, size): size values, here over WeightVals
normal(g, size) ==
    [i \in 1..size |-> (MT(g.seed, g.pos + i) % 3) - 1]

Advance(g, cnt) == [seed |-> g.seed, pos |-> g.pos + cnt]

\* ------------------------------------------------------- scipy pearsonr
\* pearsonr(x, y)[0] = num / sqrt(den2), nan when an input is constant.
pearsonr(x, y) ==
    LET len == Len(x)
        sx  == SumSeq(x)
        sy  == SumSeq(y)
        cov == len * Dot(x, y) - sx * sy
        vx  == len * Dot(x, x) - sx * sx
        vy  == len * Dot(y, y) - sy * sy
    IN  [nan |-> (vx * vy = 0), num |-> cov, den2 |-> vx * vy]

\* variant: the comparison without tf.abs
AbsAboveThreshold_signed(r) ==
    /\ ~r.nan
    /\ r.num > 0
    /\ r.num * r.num * ThresholdDen * ThresholdDen > ThresholdNum * ThresholdNum * r.den2

\* variant: >= in place of >
AbsAboveThreshold_geq(r) ==
    /\ ~r.nan
    /\ r.num * r.num * ThresholdDen * ThresholdDen >= ThresholdNum * ThresholdNum * r.den2

\* tf.abs(r) > 0.5  (a comparison with NaN is false)
AbsAboveThreshold(r) ==
    /\ ~r.nan
    /\ r.num * r.num * ThresholdDen * ThresholdDen > ThresholdNum * ThresholdNum * r.den2

\* variant: the vector is negated when its first weight is positive
Canonical_inverted(v) == IF v[1] > 0 THEN Neg(v) ELSE v

\* w = -w if w[0] < 0 else w
Canonical(v) == IF v[1] < 0 THEN Neg(v) ELSE v

\* variant: the novelty filter lets every chain pass
IsNew_always(cand, pl) == TRUE

\* for v in pool: if |pearsonr(w, v)| > 0.5: break / else: accept
IsNew(cand, pl) ==
    \A i \in 1..Len(pl) : ~AbsAboveThreshold(pearsonr(cand, pl[i]))

\* ------------------------------------------------ LTFArray and test_model
\* LTFArray(weight_array, transform, combiner).eval(chals) with the XOR
\* combiner: the sign of the product of the chains' delay differences.
LTFArray_eval(weight_array, chals) ==
    LET lin == transform(chals, Len(weight_array))
    IN  [c \in 1..Len(chals) |->
            Sign(ProdSeq([l \in 1..Len(weight_array) |->
                            Dot(weight_array[l], lin[c][l])]))]

\* scipy.stats.mode along axis 1: the most frequent value, the smallest on ties
mode(row) ==
    LET vals == {row[j] : j \in DOMAIN row}
    IN  CHOOSE v \in vals :
            \A u \in vals : \/ Count(row, v) > Count(row, u)
                            \/ (Count(row, v) = Count(row, u) /\ v <= u)

\* test_model: the number of challenges on which the model agrees with the
\* majority vote; the accuracy is this number divided by NumChallenges.
test_model(m) ==
    LET Y_true == [c \in 1..Len(responses) |-> mode(responses[c])]
        Y_test == LTFArray_eval(m, challenges)
    IN  Cardinality({c \in 1..Len(responses) : Y_true[c] = Y_test[c]})

\* test_model(model) < 0.5
BelowHalf(matches) == 2 * matches < NumChallenges

\* ------------------------------------------------------------- learn()
\* Best solutions cma.search() may return: n weights and a trailing epsilon.
\* The weights are a single stage, a prefix of stages or none, of either sign.
ChainShapes ==
    {[i \in 1..n |-> IF i = j THEN 1 ELSE 0] : j \in 1..n}
        \cup {[i \in 1..n |-> IF i <= j THEN 1 ELSE 0] : j \in 0..n}

EpsilonVals == {0, 1, 2}

Solutions ==
    { ws \o <<e>> : ws \in ChainShapes \cup {Neg(v) : v \in ChainShapes},
                    e \in EpsilonVals }

NoCma == [initial_solution |-> <<>>, initial_step_size |-> 0,
          fitness_function |-> "", termination_no_effect |-> "",
          seed |-> "unset", termination_callback |-> "unset"]

NoOptions == [seed |-> -1, termination_callback |-> ""]

\* CMA(initial_solution=init_state, initial_step_size=1.0,
\*     fitness_function=self.objective, termination_no_effect=5e-3):
\* cma_options is not among the arguments, so the optimizer gets neither the
\* seed nor the termination callback.
CmaArgs(init) ==
    [initial_solution |-> init, initial_step_size |-> 1,
     fitness_function |-> "objective", termination_no_effect |-> "5e-3",
     seed |-> "unset", termination_callback |-> "unset"]

ObjIdle == /\ state = <<>>
           /\ costs = <<>>
           /\ model_reliabilities = <<>>

PureIdle == /\ arg = <<>>
            /\ ret = <<>>

ExpIdle == /\ train = <<>>
           /\ gen = <<>>

EsIdle == /\ hist = <<>>
          /\ abort_iter = 1
          /\ abort_delta = 1
          /\ stagnated = FALSE
          /\ es_stop = FALSE

\* State after ReliabilityBasedCMAES.__init__ and the first two lines of learn
Init ==
    /\ pc = "loop"
    /\ ExpIdle
    /\ PureIdle
    /\ pool = <<>>
    /\ n_chain = 0
    /\ w = <<>>
    /\ current_challenges = <<>>
    /\ prng \in {[seed |-> s, pos |-> 0] : s \in Seeds}
    /\ cma_options = NoOptions
    /\ init_state = <<>>
    /\ cma = NoCma
    /\ model = <<>>
    /\ responses \in ResponseMatrices
    /\ linearized_challenges = transform(challenges, k)
    /\ puf_reliabilities = reliabilities_PUF(responses)
    /\ stats = [num_iterations |-> 0, stops |-> "", num_abortions |-> 0,
                num_learned |-> 0]
    /\ ObjIdle
    /\ EsIdle

\* variant: every attempt loads the challenges of the first slot
StartAttempt_first_slot ==
    /\ pc = "loop"
    /\ n_chain < k
    /\ prng.pos < (k + MaxRetries) * (n + 1)
    /\ current_challenges' =
           [c \in 1..Len(linearized_challenges) |->
               linearized_challenges[c][1]]
    /\ cma_options' = [seed |-> randint(prng),
                       termination_callback |-> "is_iteration_stagnated"]
    /\ init_state' = normal(Advance(prng, 1), n) \o <<InitialEpsilon>>
    /\ prng' = Advance(prng, 1 + n)
    /\ cma' = CmaArgs(init_state')
    /\ pc' = "search"
    /\ UNCHANGED <<pool, n_chain, w, model, responses, linearized_challenges,
                   puf_reliabilities, stats, objVars, esVars, pureVars, expVars>>

\* while n_chain < self.k: lines 174-190, up to the construction of CMA
StartAttempt ==
    /\ pc = "loop"
    /\ n_chain < k
    /\ prng.pos < (k + MaxRetries) * (n + 1)
    /\ current_challenges' =
           [c \in 1..Len(linearized_challenges) |->
               linearized_challenges[c][n_chain + 1]]
    /\ cma_options' = [seed |-> randint(prng),
                       termination_callback |-> "is_iteration_stagnated"]
    /\ init_state' = normal(Advance(prng, 1), n) \o <<InitialEpsilon>>
    /\ prng' = Advance(prng, 1 + n)
    /\ cma' = CmaArgs(init_state')
    /\ pc' = "search"
    /\ UNCHANGED <<pool, n_chain, w, model, responses, linearized_challenges,
                   puf_reliabilities, stats, objVars, esVars, pureVars, expVars>>

\* w, _ = cma.search(); w = w[:-1]; w = -w if w[0] < 0 else w
\* search() returns only if its calls of objective() do: tf_pearsonr needs
\* as many oracle reliabilities as there are challenges.
Search ==
    /\ pc = "search"
    /\ Len(puf_reliabilities) = Len(current_challenges)
    /\ \E best \in Solutions :
          w' = Canonical(SubSeq(best, 1, Len(best) - 1))
    /\ pc' = "check"
    /\ UNCHANGED <<pool, n_chain, current_challenges, prng, cma_options,
                   init_state, cma, model, responses, linearized_challenges,
                   puf_reliabilities, stats, objVars, esVars, pureVars, expVars>>

\* variant: the accepted chain is put in front of the pool
Accept_prepends ==
    /\ pc = "check"
    /\ IsNew(w, pool)
    /\ pool' = <<w>> \o pool
    /\ n_chain' = n_chain + 1
    /\ pc' = "loop"
    /\ UNCHANGED <<w, current_challenges, prng, cma_options, init_state, cma,
                   model, responses, linearized_challenges, puf_reliabilities,
                   stats, objVars, esVars, pureVars, expVars>>

\* the else branch of the for loop: pool.append(w); n_chain += 1
Accept ==
    /\ pc = "check"
    /\ IsNew(w, pool)
    /\ pool' = Append(pool, w)
    /\ n_chain' = n_chain + 1
    /\ pc' = "loop"
    /\ UNCHANGED <<w, current_challenges, prng, cma_options, init_state, cma,
                   model, responses, linearized_challenges, puf_reliabilities,
                   stats, objVars, esVars, pureVars, expVars>>

\* variant: n_chain += 1 outside the else branch
Reject_advances ==
    /\ pc = "check"
    /\ ~IsNew(w, pool)
    /\ n_chain' = n_chain + 1
    /\ pc' = "loop"
    /\ UNCHANGED <<pool, w, current_challenges, prng, cma_options,
                   init_state, cma, model, responses, linearized_challenges,
                   puf_reliabilities, stats, objVars, esVars, pureVars, expVars>>

\* the break of the for loop: nothing is appended
Reject ==
    /\ pc = "check"
    /\ ~IsNew(w, pool)
    /\ pc' = "loop"
    /\ UNCHANGED <<pool, n_chain, w, current_challenges, prng, cma_options,
                   init_state, cma, model, responses, linearized_challenges,
                   puf_reliabilities, stats, objVars, esVars, pureVars, expVars>>

\* model = LTFArray(np.array(pool), ...) after the loop
Assemble ==
    /\ pc = "loop"
    /\ ~(n_chain < k)
    /\ model' = pool
    /\ pc' = "test"
    /\ UNCHANGED <<pool, n_chain, w, current_challenges, prng, cma_options,
                   init_state, cma, responses, linearized_challenges,
                   puf_reliabilities, stats, objVars, esVars, pureVars, expVars>>

\* variant: every chain of the pool is negated
Orient_flips_all ==
    /\ pc = "test"
    /\ IF BelowHalf(test_model(model))
          THEN /\ pool' = [i \in 1..Len(pool) |-> Neg(pool[i])]
               /\ model' = pool'
          ELSE UNCHANGED <<pool, model>>
    /\ pc' = "done"
    /\ UNCHANGED <<n_chain, w, current_challenges, prng, cma_options,
                   init_state, cma, responses, linearized_challenges,
                   puf_reliabilities, stats, objVars, esVars, pureVars, expVars>>

\* if self.test_model(model) < 0.5: flip the first chain; return model
Orient ==
    /\ pc = "test"
    /\ IF BelowHalf(test_model(model))
          THEN /\ pool' = [pool EXCEPT ![1] = Neg(pool[1])]
               /\ model' = pool'
          ELSE UNCHANGED <<pool, model>>
    /\ pc' = "done"
    /\ UNCHANGED <<n_chain, w, current_challenges, prng, cma_options,
                   init_state, cma, responses, linearized_challenges,
                   puf_reliabilities, stats, objVars, esVars, pureVars, expVars>>

Next ==
    \/ StartAttempt
    \/ Search
    \/ Accept
    \/ Reject
    \/ Assemble
    \/ Orient

Spec == Init /\ [][Next]_vars


\* ------------------------------------------------------------ objective()
\* A float64 value: nan, or v / Scale.
F(v) == [nan |-> FALSE, v |-> v]

NaN == [nan |-> TRUE, v |-> 0]

\* tf.abs
tf_abs(a) == IF a.nan THEN NaN ELSE F(Abs(a.v))

\* 1 - a
OneMinus(a) == IF a.nan THEN NaN ELSE F(Scale - a.v)

\* floor of the square root, for 0 <= v <= Scale * Scale
ISqrt(v) == CHOOSE r \in 0..Scale : r * r <= v /\ v < (r + 1) * (r + 1)

\* cov / auto_cov with auto_cov = sqrt(den2); 0.0 / 0.0 is NaN
DivSqrt(cov, den2) ==
    IF den2 = 0 THEN NaN
    ELSE F(Sign(cov) * ISqrt((Scale * Scale * cov * cov) \div den2))

\* variant: every candidate is compared with the first candidate's epsilon
reliabilities_MODEL_shared(delay_diffs, EPSILON) ==
    [c \in 1..Len(delay_diffs[1]) |->
        [i \in 1..Len(delay_diffs) |-> Abs(delay_diffs[i][c]) > EPSILON[1]]]

\* reliabilities_MODEL: tf.greater(tf.transpose(tf.abs(delay_diffs)), EPSILON),
\* shape (challenges, population); EPSILON broadcasts along the population.
reliabilities_MODEL(delay_diffs, EPSILON) ==
    [c \in 1..Len(delay_diffs[1]) |->
        [i \in 1..Len(delay_diffs) |-> Abs(delay_diffs[i][c]) > EPSILON[i]]]

\* variant: x is centered on the mean of the whole matrix, tf.reduce_mean(x)
tf_pearsonr_global_mean(x, y) ==
    LET len == Len(y)
        cells == len * Len(x[1])
        total == SumSeq([c \in 1..len |-> SumSeq(x[c])])
        centered_x == [c \in 1..len |->
                         [i \in 1..Len(x[1]) |-> cells * x[c][i] - total]]
        centered_y == [c \in 1..len |-> len * y[c] - SumSeq(y)]
        cov_xy == [i \in 1..Len(x[1]) |->
                     SumSeq([c \in 1..len |-> centered_y[c] * centered_x[c][i]])]
        sq_x == [i \in 1..Len(x[1]) |->
                     SumSeq([c \in 1..len |-> centered_x[c][i] * centered_x[c][i]])]
        sq_y == SumSeq([c \in 1..len |-> centered_y[c] * centered_y[c]])
    IN  [i \in 1..Len(x[1]) |-> DivSqrt(cov_xy[i], sq_x[i] * sq_y)]

\* tf_pearsonr(x, y): x has shape (challenges, population), y (challenges).
\* The centered vectors are kept multiplied by the number of challenges,
\* which cancels in cov_xy / auto_cov.
tf_pearsonr(x, y) ==
    LET len == Len(y)
        centered_x == [c \in 1..len |->
                         [i \in 1..Len(x[1]) |->
                             len * x[c][i] - SumSeq([d \in 1..len |-> x[d][i]])]]
        centered_y == [c \in 1..len |-> len * y[c] - SumSeq(y)]
        cov_xy == [i \in 1..Len(x[1]) |->
                     SumSeq([c \in 1..len |-> centered_y[c] * centered_x[c][i]])]
        sq_x == [i \in 1..Len(x[1]) |->
                     SumSeq([c \in 1..len |-> centered_x[c][i] * centered_x[c][i]])]
        sq_y == SumSeq([c \in 1..len |-> centered_y[c] * centered_y[c]])
    IN  [i \in 1..Len(x[1]) |-> DivSqrt(cov_xy[i], sq_x[i] * sq_y)]

\* objective(state), lines 142-146: the local model_reliabilities, one row
\* per challenge and one column per candidate
objective_model_reliabilities(st) ==
    LET weights == [i \in 1..Len(st) |-> SubSeq(st[i], 1, n)]
        epsilon == [i \in 1..Len(st) |-> st[i][Len(st[i])]]
        delay_diffs == [i \in 1..Len(st) |->
                          [c \in 1..Len(current_challenges) |->
                              Dot(weights[i], current_challenges[c])]]
    IN  reliabilities_MODEL(delay_diffs, epsilon)

\* variant: 1 - |corr|
objective_abs_inside(st) ==
    LET thresholded == objective_model_reliabilities(st)
        x == [c \in 1..Len(thresholded) |->
                [i \in 1..Len(st) |-> IF thresholded[c][i] THEN 1 ELSE 0]]
        corr == tf_pearsonr(x, puf_reliabilities)
    IN  [i \in 1..Len(st) |-> OneMinus(tf_abs(corr[i]))]

\* objective(state): one cost per candidate, tf.abs(1 - corr)
objective(st) ==
    LET thresholded == objective_model_reliabilities(st)
        x == [c \in 1..Len(thresholded) |->
                [i \in 1..Len(st) |-> IF thresholded[c][i] THEN 1 ELSE 0]]
        corr == tf_pearsonr(x, puf_reliabilities)
    IN  [i \in 1..Len(st) |-> tf_abs(OneMinus(corr[i]))]

\* Repeated measurements for the objective: any set of rows is noisy (its
\* first repetition disagrees with the others).
ObjResponseMatrices ==
    { [c \in 1..NumChallenges |->
          [j \in 1..Repetitions |-> IF c \in noisy /\ j = 1 THEN -1 ELSE 1]] :
      noisy \in SUBSET (1..NumChallenges) }

\* Candidates the optimizer samples: weights (a prefix of stages, or the
\* first two stages with opposite signs) and a trailing epsilon.
Candidates ==
    { ws \o <<e>> :
        ws \in {[i \in 1..n |-> IF i <= j THEN 1 ELSE 0] : j \in 0..n} \cup
                 {[i \in 1..n |-> IF i = 1 THEN 1 ELSE IF i = 2 THEN -1 ELSE 0]},
        e \in EpsilonVals }

LearnIdle ==
    /\ pool = <<>>
    /\ n_chain = 0
    /\ w = <<>>
    /\ prng = [seed |-> 0, pos |-> 0]
    /\ cma_options = NoOptions
    /\ init_state = <<>>
    /\ cma = NoCma
    /\ model = <<>>
    /\ stats = [num_iterations |-> 0, stops |-> "", num_abortions |-> 0,
                num_learned |-> 0]

\* The learner is constructed, the first slot's challenges are loaded and
\* the optimizer hands a population to objective().
InitObjective ==
    /\ pc = "objective"
    /\ ExpIdle
    /\ PureIdle
    /\ LearnIdle
    /\ responses \in ObjResponseMatrices
    /\ linearized_challenges = transform(challenges, k)
    /\ puf_reliabilities = reliabilities_PUF(responses)
    /\ current_challenges =
           [c \in 1..NumChallenges |-> transform(challenges, k)[c][1]]
    /\ state \in [1..PopSize -> Candidates]
    /\ costs = <<>>
    /\ model_reliabilities = <<>>
    /\ EsIdle

Evaluate ==
    /\ pc = "objective"
    /\ model_reliabilities' = objective_model_reliabilities(state)
    /\ costs' = objective(state)
    /\ pc' = "evaluated"
    /\ UNCHANGED <<pool, n_chain, w, current_challenges, prng, cma_options,
                   init_state, cma, model, responses, linearized_challenges,
                   puf_reliabilities, stats, state, esVars, pureVars, expVars>>

NextObjective == Evaluate

SpecObjective == InitObjective /\ [][NextObjective]_vars

\* ------------------------------------------------ is_iteration_stagnated
Max(S) == CHOOSE x \in S : \A y \in S : y <= x

Min(S) == CHOOSE x \in S : \A y \in S : x <= y

\* Python's h[-m:]
LastSlice(h, m) ==
    IF m > 0 THEN (IF m >= Len(h) THEN h ELSE SubSeq(h, Len(h) - m + 1, Len(h)))
    ELSE IF m = 0 THEN h
    ELSE SubSeq(h, 1 - m, Len(h))

\* variant: the spread is compared with <=
is_iteration_stagnated_leq(h) ==
    LET fun_history == LastSlice(h, abort_iter)
        vals == {fun_history[i] : i \in DOMAIN fun_history}
    IN  IF Len(h) < MinHistory THEN FALSE
        ELSE IF Abs(Max(vals) - Min(vals)) <= abort_delta THEN TRUE
        ELSE FALSE

\* variant: the whole history in place of its trailing window
is_iteration_stagnated_whole(h) ==
    LET fun_history == h
        vals == {fun_history[i] : i \in DOMAIN fun_history}
    IN  IF Len(h) < MinHistory THEN FALSE
        ELSE IF Abs(Max(vals) - Min(vals)) < abort_delta THEN TRUE
        ELSE FALSE

\* variant: len(es.fit.hist) <= 100
is_iteration_stagnated_late(h) ==
    LET fun_history == LastSlice(h, abort_iter)
        vals == {fun_history[i] : i \in DOMAIN fun_history}
    IN  IF Len(h) <= MinHistory THEN FALSE
        ELSE IF Abs(Max(vals) - Min(vals)) < abort_delta THEN TRUE
        ELSE FALSE

\* is_iteration_stagnated(es) with h = es.fit.hist
is_iteration_stagnated(h) ==
    LET fun_history == LastSlice(h, abort_iter)
        vals == {fun_history[i] : i \in DOMAIN fun_history}
    IN  IF Len(h) < MinHistory THEN FALSE
        ELSE IF Abs(Max(vals) - Min(vals)) < abort_delta THEN TRUE
        ELSE FALSE

\* Configurations of the stagnation rule
AbortIters == 1..MaxAbortIter

AbortDeltas == 1..MaxAbortDelta

\* Change of the best cost from one generation to the next, in 1 / Scale
CostSteps == {-2, -1, 0, 1}

\* The cost of the first generation
StartCost == 2 * Scale

\* Histories keep one rate of change, or switch once to another rate.
OneSwitch(h) ==
    \A i \in 1..(Len(h) - 3) :
        (h[i + 1] - h[i] # h[i + 2] - h[i + 1]) =>
            \A j \in (i + 1)..(Len(h) - 2) :
                h[j + 1] - h[j] = h[j + 2] - h[j + 1]

\* Best costs the next generation may record after history h
NextCosts(h) ==
    IF h = <<>> THEN {StartCost}
    ELSE {c \in {h[Len(h)] + d : d \in CostSteps} :
             c >= 0 /\ c <= 2 * Scale /\ OneSwitch(Append(h, c))}

\* ------------------------------------------------- one run of cma.search()
\* learn() has constructed the optimizer for the first slot (line 185-189)
\* and calls cma.search() (line 191).
InitSearch ==
    /\ pc = "search"
    /\ ExpIdle
    /\ PureIdle
    /\ pool = <<>>
    /\ n_chain = 0
    /\ w = <<>>
    /\ responses = Measured(0)
    /\ linearized_challenges = transform(challenges, k)
    /\ puf_reliabilities = reliabilities_PUF(responses)
    /\ current_challenges =
           [c \in 1..NumChallenges |-> transform(challenges, k)[c][1]]
    /\ prng = [seed |-> 0, pos |-> n + 1]
    /\ cma_options = [seed |-> randint([seed |-> 0, pos |-> 0]),
                      termination_callback |-> "is_iteration_stagnated"]
    /\ init_state = normal([seed |-> 0, pos |-> 1], n) \o <<InitialEpsilon>>
    /\ cma = CmaArgs(init_state)
    /\ model = <<>>
    /\ stats = [num_iterations |-> 0, stops |-> "", num_abortions |-> 0,
                num_learned |-> 0]
    /\ ObjIdle
    /\ hist = <<>>
    /\ abort_iter \in AbortIters
    /\ abort_delta \in AbortDeltas
    /\ stagnated = FALSE
    /\ es_stop = FALSE

\* One sample-and-evaluate generation of the run.  The optimizer consults a
\* termination callback only if it was constructed with one.
Generation ==
    /\ pc = "search"
    /\ ~es_stop
    /\ Len(hist) < MaxGenerations
    /\ (cma.termination_callback = "is_iteration_stagnated"
           => ~is_iteration_stagnated(hist))
    /\ \E c \in NextCosts(hist) : hist' = Append(hist, c)
    /\ UNCHANGED <<learnVars, objVars, abort_iter, abort_delta, stagnated,
                   es_stop, pureVars, expVars>>

\* The optimizer's own convergence criterion fires.
OwnTermination ==
    /\ pc = "search"
    /\ ~es_stop
    /\ hist # <<>>
    /\ es_stop' = TRUE
    /\ UNCHANGED <<learnVars, objVars, hist, abort_iter, abort_delta,
                   stagnated, pureVars, expVars>>

NextSearch ==
    \/ Generation
    \/ OwnTermination

SpecSearch == InitSearch /\ [][NextSearch]_vars

\* ------------------------------- is_iteration_stagnated on its own
\* es.fit.hist grows by one entry per iteration and the rule is evaluated
\* on it after each iteration.
InitStag ==
    /\ pc = "stagnation"
    /\ ExpIdle
    /\ PureIdle
    /\ LearnIdle
    /\ responses = Measured(0)
    /\ linearized_challenges = transform(challenges, k)
    /\ puf_reliabilities = reliabilities_PUF(responses)
    /\ current_challenges = <<>>
    /\ ObjIdle
    /\ hist = <<>>
    /\ abort_iter \in AbortIters
    /\ abort_delta \in AbortDeltas
    /\ stagnated = FALSE
    /\ es_stop = FALSE

Iteration ==
    /\ pc = "stagnation"
    /\ Len(hist) < MaxGenerations
    /\ \E c \in NextCosts(hist) : hist' = Append(hist, c)
    /\ stagnated' = is_iteration_stagnated(hist')
    /\ UNCHANGED <<learnVars, objVars, abort_iter, abort_delta, es_stop,
                   pureVars, expVars>>

NextStag == Iteration

SpecStag == InitStag /\ [][NextStag]_vars

\* ------------------------------------------ sign canonicalization on its own
\* What cma.search() can return for the weights, after w = w[:-1]
RawChains == [1..n -> WeightVals]

\* The learner is constructed and the optimizer has returned arg.
InitCanon ==
    /\ pc = "canonicalize"
    /\ ExpIdle
    /\ LearnIdle
    /\ responses = Measured(0)
    /\ linearized_challenges = transform(challenges, k)
    /\ puf_reliabilities = reliabilities_PUF(responses)
    /\ current_challenges = <<>>
    /\ ObjIdle
    /\ EsIdle
    /\ arg \in RawChains
    /\ ret = <<>>

\* line 194 applied to the returned chain
Canonicalize ==
    /\ pc = "canonicalize"
    /\ ret' = Append(ret, Canonical(arg))
    /\ pc' = "canonical"
    /\ UNCHANGED <<pool, n_chain, w, current_challenges, prng, cma_options,
                   init_state, cma, model, responses, linearized_challenges,
                   puf_reliabilities, stats, objVars, esVars, arg, expVars>>

\* line 194 applied to the negated chain, as a later attempt may return it
CanonicalizeNegation ==
    /\ pc = "canonical"
    /\ ret' = Append(ret, Canonical(Neg(arg)))
    /\ pc' = "negated"
    /\ UNCHANGED <<pool, n_chain, w, current_challenges, prng, cma_options,
                   init_state, cma, model, responses, linearized_challenges,
                   puf_reliabilities, stats, objVars, esVars, arg, expVars>>

\* line 194 applied to its own result
Recanonicalize ==
    /\ pc = "negated"
    /\ ret' = Append(ret, Canonical(ret[1]))
    /\ pc' = "again"
    /\ UNCHANGED <<pool, n_chain, w, current_challenges, prng, cma_options,
                   init_state, cma, model, responses, linearized_challenges,
                   puf_reliabilities, stats, objVars, esVars, arg, expVars>>

NextCanon ==
    \/ Canonicalize
    \/ CanonicalizeNegation
    \/ Recanonicalize

SpecCanon == InitCanon /\ [][NextCanon]_vars

\* ------------------------------------------------ reliabilities_PUF on its own
\* One row of repeated measurements in {+1,-1}: the first or the last t of
\* the len repetitions read -1.
MeasuredRows(len) ==
    {[j \in 1..len |-> IF j <= t THEN -1 ELSE 1] : t \in 0..len} \cup
    {[j \in 1..len |-> IF j > len - t THEN -1 ELSE 1] : t \in 0..len}

\* Matrices of shape [num_challenges, num_measurements], with an odd and an
\* even number of measurements
MeasuredMatrices ==
    [1..NumChallenges -> MeasuredRows(Repetitions)] \cup
    [1..NumChallenges -> MeasuredRows(Repetitions + 1)]

\* The same measurements in {0,1}: the value one is written 1, the other 0.
Encode01(bits, one) ==
    [r \in DOMAIN bits |->
        [j \in DOMAIN bits[r] |-> IF bits[r][j] = one THEN 1 ELSE 0]]

\* arg holds the matrices reliabilities_PUF is called with, ret its results.
InitReliability ==
    /\ pc = "measure"
    /\ ExpIdle
    /\ LearnIdle
    /\ responses = Measured(0)
    /\ linearized_challenges = transform(challenges, k)
    /\ puf_reliabilities = reliabilities_PUF(responses)
    /\ current_challenges = <<>>
    /\ ObjIdle
    /\ EsIdle
    /\ \E m \in MeasuredMatrices : arg = <<m>>
    /\ ret = <<>>

\* reliabilities_PUF(response_bits) on the matrix handed in last
Measure ==
    /\ pc = "measure"
    /\ ret' = Append(ret, reliabilities_PUF(arg[Len(arg)]))
    /\ pc' = IF Len(arg) = 1 THEN "reencode" ELSE "measured"
    /\ UNCHANGED <<pool, n_chain, w, current_challenges, prng, cma_options,
                   init_state, cma, model, responses, linearized_challenges,
                   puf_reliabilities, stats, objVars, esVars, arg, expVars>>

\* The caller hands in the same measurements encoded in {0,1}, either polarity.
Reencode ==
    /\ pc = "reencode"
    /\ \E one \in {1, -1} : arg' = Append(arg, Encode01(arg[1], one))
    /\ pc' = "measure"
    /\ UNCHANGED <<pool, n_chain, w, current_challenges, prng, cma_options,
                   init_state, cma, model, responses, linearized_challenges,
                   puf_reliabilities, stats, objVars, esVars, ret, expVars>>

NextReliability ==
    \/ Measure
    \/ Reencode

SpecReliability == InitReliability /\ [][NextReliability]_vars

\* ------------------------------------------- learn() on any training set
\* Response matrices with one row too few or one too many for the challenges
MismatchedResponses ==
    { [c \in 1..rows |->
          [j \in 1..Repetitions |->
              IF c % 2 = 0 THEN (IF j <= noisy THEN -1 ELSE 1)
                           ELSE (IF j <= noisy THEN 1 ELSE -1)]] :
      rows \in {NumChallenges - 1, NumChallenges + 1}, noisy \in {0, 1} }

\* State after __init__ (lines 86-107, which test nothing) and the first two
\* lines of learn, for a training set that is well formed or not
InitAnyInput ==
    /\ pc = "loop"
    /\ ExpIdle
    /\ PureIdle
    /\ pool = <<>>
    /\ n_chain = 0
    /\ w = <<>>
    /\ current_challenges = <<>>
    /\ prng \in {[seed |-> s, pos |-> 0] : s \in Seeds}
    /\ cma_options = NoOptions
    /\ init_state = <<>>
    /\ cma = NoCma
    /\ model = <<>>
    /\ responses \in ResponseMatrices \cup MismatchedResponses
    /\ linearized_challenges = transform(challenges, k)
    /\ puf_reliabilities = reliabilities_PUF(responses)
    /\ stats = [num_iterations |-> 0, stops |-> "", num_abortions |-> 0,
                num_learned |-> 0]
    /\ ObjIdle
    /\ EsIdle

\* cma.search() calls objective() on its first population; tf.tensordot in
\* tf_pearsonr (line 47) raises when y and x differ in their first dimension.
ObjectiveRaises ==
    /\ pc = "search"
    /\ Len(puf_reliabilities) # Len(current_challenges)
    /\ pc' = "raised"
    /\ UNCHANGED <<pool, n_chain, w, current_challenges, prng, cma_options,
                   init_state, cma, model, responses, linearized_challenges,
                   puf_reliabilities, stats, objVars, esVars, pureVars, expVars>>

NextAnyInput ==
    \/ StartAttempt
    \/ Search
    \/ ObjectiveRaises
    \/ Accept
    \/ Reject
    \/ Assemble
    \/ Orient

SpecAnyInput == InitAnyInput /\ [][NextAnyInput]_vars

\* ---------------------------------- learn() with its population evaluations
\* Populations the optimizer hands to objective() during a run: candidate i
\* weighs the first i stages (cyclically), all with the same epsilon.
SearchPopulations ==
    { [i \in 1..PopSize |->
          [j \in 1..n |-> IF j <= ((i - 1) % n) + 1 THEN 1 ELSE 0] \o <<e>>] :
      e \in {0, 1} }

\* variant: the oracle reliabilities are centered in place
EvaluateInSearch_centers ==
    /\ pc = "search"
    /\ Len(puf_reliabilities) = Len(current_challenges)
    /\ \E population \in SearchPopulations :
          /\ state' = population
          /\ model_reliabilities' = objective_model_reliabilities(population)
          /\ costs' = objective(population)
    /\ puf_reliabilities' =
           [c \in 1..Len(puf_reliabilities) |->
               Len(puf_reliabilities) * puf_reliabilities[c]
                   - SumSeq(puf_reliabilities)]
    /\ UNCHANGED <<pc, pool, n_chain, w, current_challenges, prng, cma_options,
                   init_state, cma, model, responses, linearized_challenges,
                   stats, esVars, pureVars, expVars>>

\* One call of self.objective by the optimizer inside cma.search()
EvaluateInSearch ==
    /\ pc = "search"
    /\ Len(puf_reliabilities) = Len(current_challenges)
    /\ \E population \in SearchPopulations :
          /\ state' = population
          /\ model_reliabilities' = objective_model_reliabilities(population)
          /\ costs' = objective(population)
    /\ UNCHANGED <<pc, pool, n_chain, w, current_challenges, prng, cma_options,
                   init_state, cma, model, responses, linearized_challenges,
                   puf_reliabilities, stats, esVars, pureVars, expVars>>

NextRun ==
    \/ StartAttempt
    \/ EvaluateInSearch
    \/ Search
    \/ Accept
    \/ Reject
    \/ Assemble
    \/ Orient

SpecRun == Init /\ [][NextRun]_vars

\* ------------------------------------------- learn() without an attempt bound
\* The stream MT(seed, .) repeats after SeedSpace values, so the position is
\* kept modulo SeedSpace and the number of attempts is not bounded.
Wrap(g) == [seed |-> g.seed, pos |-> g.pos % SeedSpace]

\* variant: the loop is left after a rejected attempt
StartAnotherAttempt_gives_up ==
    /\ pc = "loop"
    /\ n_chain < k
    /\ (w = <<>> \/ \E i \in DOMAIN pool : pool[i] = w)
    /\ current_challenges' =
           [c \in 1..Len(linearized_challenges) |->
               linearized_challenges[c][n_chain + 1]]
    /\ cma_options' = [seed |-> randint(prng),
                       termination_callback |-> "is_iteration_stagnated"]
    /\ init_state' = normal(Advance(prng, 1), n) \o <<InitialEpsilon>>
    /\ prng' = Wrap(Advance(prng, 1 + n))
    /\ cma' = CmaArgs(init_state')
    /\ pc' = "search"
    /\ UNCHANGED <<pool, n_chain, w, model, responses, linearized_challenges,
                   puf_reliabilities, stats, objVars, esVars, pureVars, expVars>>

\* while n_chain < self.k: lines 173-190; the only loop condition
StartAnotherAttempt ==
    /\ pc = "loop"
    /\ n_chain < k
    /\ current_challenges' =
           [c \in 1..Len(linearized_challenges) |->
               linearized_challenges[c][n_chain + 1]]
    /\ cma_options' = [seed |-> randint(prng),
                       termination_callback |-> "is_iteration_stagnated"]
    /\ init_state' = normal(Advance(prng, 1), n) \o <<InitialEpsilon>>
    /\ prng' = Wrap(Advance(prng, 1 + n))
    /\ cma' = CmaArgs(init_state')
    /\ pc' = "search"
    /\ UNCHANGED <<pool, n_chain, w, model, responses, linearized_challenges,
                   puf_reliabilities, stats, objVars, esVars, pureVars, expVars>>

\* The run returns a chain that is not correlated with any pool member.
SearchNovel == Search /\ IsNew(w', pool)

NextUnbounded ==
    \/ StartAnotherAttempt
    \/ Search
    \/ Accept
    \/ Reject
    \/ Assemble
    \/ Orient

\* learn() keeps running, and a run that can return a novel chain again and
\* again eventually does.
SpecUnbounded ==
    /\ Init
    /\ [][NextUnbounded]_vars
    /\ WF_vars(NextUnbounded)
    /\ SF_vars(SearchNovel)

\* ------------------------------------------------------- pipeline.train
\* X_train[i:j]: the samples with 0-based index i .. j-1, here numbered
\* from 1, so the slice is i+1 .. j cut at the end of the training set.
Slice(len, i, j) == {s \in 1..len : i < s /\ s <= j}

\* train(model, X_train, y_train, criterion, optimizer, batch_size, epochs)
\* is called; fed counts, per sample, the mini-batches of the current epoch
\* that held it, batches lists the mini-batches of the current epoch.
InitTrain ==
    /\ pc = "epoch"
    /\ LearnIdle
    /\ responses = Measured(0)
    /\ linearized_challenges = transform(challenges, k)
    /\ puf_reliabilities = reliabilities_PUF(responses)
    /\ current_challenges = <<>>
    /\ ObjIdle
    /\ EsIdle
    /\ PureIdle
    /\ gen = <<>>
    /\ \E len \in 0..MaxSamples, batch_size \in 1..MaxSamples,
          epochs \in 0..MaxEpochs :
          train = [len |-> len, batch_size |-> batch_size, epochs |-> epochs,
                   t |-> 0, i |-> 0, j |-> 0,
                   fed |-> [s \in 1..len |-> 0], batches |-> <<>>,
                   loss |-> "unbound", losses |-> <<>>]

\* for t in range(epochs): j = batch_size, and the inner range starts at 0
EpochStart ==
    /\ pc = "epoch"
    /\ train.t < train.epochs
    /\ train' = [train EXCEPT !.j = train.batch_size, !.i = 0,
                              !.fed = [s \in 1..train.len |-> 0],
                              !.batches = <<>>]
    /\ pc' = "batch"
    /\ UNCHANGED <<pool, n_chain, w, current_challenges, prng, cma_options,
                   init_state, cma, model, responses, linearized_challenges,
                   puf_reliabilities, stats, objVars, esVars, pureVars, gen>>

\* One pass of the inner loop, lines 69-75: the model is fed X_train[i:j];
\* the assignment i = j is overwritten by the next value of the range, and
\* j is not assigned in the body.
MiniBatch ==
    /\ pc = "batch"
    /\ train.i < train.len
    /\ LET batch == Slice(train.len, train.i, train.j)
       IN  train' = [train EXCEPT
                        !.fed = [s \in 1..train.len |->
                                    IF s \in batch THEN train.fed[s] + 1
                                    ELSE train.fed[s]],
                        !.batches = Append(train.batches, batch),
                        !.loss = IF batch = {} THEN "nan" ELSE "defined",
                        !.i = train.i + train.batch_size]
    /\ UNCHANGED <<pc, pool, n_chain, w, current_challenges, prng, cma_options,
                   init_state, cma, model, responses, linearized_challenges,
                   puf_reliabilities, stats, objVars, esVars, pureVars, gen>>

\* losses.append(loss.item()), line 77; loss is unbound if no batch ran
EpochEnd ==
    /\ pc = "batch"
    /\ train.i >= train.len
    /\ IF train.loss = "unbound"
          THEN /\ pc' = "raised"
               /\ UNCHANGED train
          ELSE /\ pc' = "epoch"
               /\ train' = [train EXCEPT !.losses = Append(train.losses, train.loss),
                                         !.t = train.t + 1]
    /\ UNCHANGED <<pool, n_chain, w, current_challenges, prng, cma_options,
                   init_state, cma, model, responses, linearized_challenges,
                   puf_reliabilities, stats, objVars, esVars, pureVars, gen>>

\* return losses
TrainReturn ==
    /\ pc = "epoch"
    /\ train.t = train.epochs
    /\ pc' = "returned"
    /\ UNCHANGED <<pool, n_chain, w, current_challenges, prng, cma_options,
                   init_state, cma, model, responses, linearized_challenges,
                   puf_reliabilities, stats, objVars, esVars, pureVars, expVars>>

NextTrain ==
    \/ EpochStart
    \/ MiniBatch
    \/ EpochEnd
    \/ TrainReturn

SpecTrain == InitTrain /\ [][NextTrain]_vars

\* ------------------------------- generate_reliable_challenges_for_IPUF
\* What a TrainingSet can hold per row: a challenge with its repeated
\* responses.  The four kinds of row differ in their challenge; their
\* responses agree on +1, agree on -1, are split as evenly as the number of
\* repetitions allows, or agree on -1 but for one repetition.
SampleChallenge(kind) == [j \in 1..n |-> IF j < kind THEN -1 ELSE 1]

SampleResponses(kind) ==
    [j \in 1..Repetitions |->
        IF kind = 1 THEN 1
        ELSE IF kind = 2 THEN -1
        ELSE IF kind = 3 THEN (IF j <= Repetitions \div 2 THEN -1 ELSE 1)
        ELSE (IF j = 1 THEN 1 ELSE -1)]

SampleKinds == 1..4

\* isUnreliable, for one row: |mean of the row| < 0.5
isUnreliable(row) == 2 * Abs(SumSeq(row)) < Len(row)

\* a[mask]: the rows of a whose index is in keep, in order
RECURSIVE Select(_, _)
Select(a, keep) ==
    IF a = <<>> THEN <<>>
    ELSE LET rest == Select(SubSeq(a, 1, Len(a) - 1), keep)
         IN  IF Len(a) \in keep THEN Append(rest, a[Len(a)]) ELSE rest

\* a[:m, :]
Take(a, m) ==
    IF m >= 0 THEN SubSeq(a, 1, IF m < Len(a) THEN m ELSE Len(a))
    ELSE SubSeq(a, 1, IF Len(a) + m > 0 THEN Len(a) + m ELSE 0)

\* generate_reliable_challenges_for_IPUF(num_chals) is called.
InitGenerate ==
    /\ pc = "generate"
    /\ LearnIdle
    /\ responses = Measured(0)
    /\ linearized_challenges = transform(challenges, k)
    /\ puf_reliabilities = reliabilities_PUF(responses)
    /\ current_challenges = <<>>
    /\ ObjIdle
    /\ EsIdle
    /\ PureIdle
    /\ train = <<>>
    /\ \E num_chals \in 0..MaxNumChals :
          gen = [num_chals |-> num_chals, chal_count |-> 0,
                 candidate_chals |-> <<>>, candidate_resps |-> <<>>,
                 rounds |-> 0]

\* variant: every round takes up to num_chals rows
GenerateRound_takes_num_chals ==
    /\ pc = "generate"
    /\ gen.chal_count <= gen.num_chals
    /\ gen.rounds < MaxRounds
    /\ \E kinds \in [1..BatchNum -> SampleKinds] :
          LET ts_challenges == [r \in 1..BatchNum |-> SampleChallenge(kinds[r])]
              ts_responses == [r \in 1..BatchNum |-> SampleResponses(kinds[r])]
              rels == {r \in 1..BatchNum : ~isUnreliable(ts_responses[r])}
              rel_chals == Select(ts_challenges, rels)
              rel_resps == Select(ts_responses, rels)
          IN  gen' = [gen EXCEPT
                  !.candidate_chals =
                      IF gen.chal_count = 0 THEN Take(rel_chals, gen.num_chals)
                      ELSE gen.candidate_chals \o Take(rel_chals, gen.num_chals),
                  !.candidate_resps =
                      IF gen.chal_count = 0 THEN Take(rel_resps, gen.num_chals)
                      ELSE gen.candidate_resps \o Take(rel_resps, gen.num_chals),
                  !.chal_count = gen.chal_count + Len(rel_chals),
                  !.rounds = gen.rounds + 1]
    /\ UNCHANGED <<pc, pool, n_chain, w, current_challenges, prng, cma_options,
                   init_state, cma, model, responses, linearized_challenges,
                   puf_reliabilities, stats, objVars, esVars, pureVars, train>>

\* One pass of while chal_count <= num_chals, lines 112-129: a fresh
\* TrainingSet of BatchNum rows is drawn and its reliable rows are taken.
GenerateRound ==
    /\ pc = "generate"
    /\ gen.chal_count <= gen.num_chals
    /\ gen.rounds < MaxRounds
    /\ \E kinds \in [1..BatchNum -> SampleKinds] :
          LET ts_challenges == [r \in 1..BatchNum |-> SampleChallenge(kinds[r])]
              ts_responses == [r \in 1..BatchNum |-> SampleResponses(kinds[r])]
              rels == {r \in 1..BatchNum : ~isUnreliable(ts_responses[r])}
              rel_chals == Select(ts_challenges, rels)
              rel_resps == Select(ts_responses, rels)
              left == gen.num_chals - gen.chal_count
          IN  gen' = [gen EXCEPT
                  !.candidate_chals =
                      IF gen.chal_count = 0 THEN Take(rel_chals, gen.num_chals)
                      ELSE gen.candidate_chals \o Take(rel_chals, left),
                  !.candidate_resps =
                      IF gen.chal_count = 0 THEN Take(rel_resps, gen.num_chals)
                      ELSE gen.candidate_resps \o Take(rel_resps, left),
                  !.chal_count = gen.chal_count + Len(rel_chals),
                  !.rounds = gen.rounds + 1]
    /\ UNCHANGED <<pc, pool, n_chain, w, current_challenges, prng, cma_options,
                   init_state, cma, model, responses, linearized_challenges,
                   puf_reliabilities, stats, objVars, esVars, pureVars, train>>

\* return candidate_chals, candidate_resps
GenerateReturn ==
    /\ pc = "generate"
    /\ gen.chal_count > gen.num_chals
    /\ pc' = "generated"
    /\ UNCHANGED <<pool, n_chain, w, current_challenges, prng, cma_options,
                   init_state, cma, model, responses, linearized_challenges,
                   puf_reliabilities, stats, objVars, esVars, pureVars, expVars>>

NextGenerate ==
    \/ GenerateRound
    \/ GenerateReturn

SpecGenerate == InitGenerate /\ [][NextGenerate]_vars

\* ================================================================ claims
\* |Pearson correlation of a and b| > 1/2, from the sums of the two vectors
Correlated(a, b) ==
    LET r == pearsonr(a, b)
    IN  r.den2 > 0 /\ 4 * r.num * r.num > r.den2

\* |Pearson correlation of a and b| is defined and <= 1/2
Uncorrelated(a, b) ==
    LET r == pearsonr(a, b)
    IN  r.den2 > 0 /\ 4 * r.num * r.num <= r.den2

NoCorrelatedPair(chains) ==
    \A i \in 1..Len(chains) : \A j \in 1..Len(chains) :
        i # j => ~Correlated(chains[i], chains[j])

\* C1: in every state of learn(), up to the returned model and also after
\* the orientation flip, no two distinct members of the chain pool (and no
\* two rows of the assembled model) have absolute Pearson correlation > 0.5.
C1_PoolDeduplicated ==
    /\ NoCorrelatedPair(pool)
    /\ NoCorrelatedPair(model)

\* C1 witness: learn() has returned a model whose first chain was flipped
\* and whose first two chains have a defined correlation.
C1_Witness ==
    /\ pc = "done"
    /\ Len(model) >= 2
    /\ model[1][1] < 0
    /\ Uncorrelated(model[1], model[2])
    /\ pearsonr(model[1], model[2]).num # 0

\* C2: the loop is left and the model assembled only with exactly k chains
\* in the pool; the model has k rows of length n, row i being the i-th
\* accepted chain (the pool keeps acceptance order: it grows only at its end).
C2_ModelHasKChains ==
    /\ [](pc \in {"test", "done"} =>
            /\ n_chain = k
            /\ Len(pool) = k
            /\ Len(model) = k
            /\ \A i \in 1..k : Len(model[i]) = n /\ model[i] = pool[i])
    /\ [](pc \notin {"test", "done"} => model = <<>>)
    /\ [][Len(pool') > Len(pool) =>
            /\ Len(pool') = Len(pool) + 1
            /\ SubSeq(pool', 1, Len(pool)) = pool]_vars

\* C2 witness: the model has been returned with k rows.
C2_Witness ==
    /\ pc = "done"
    /\ Len(model) = k
    /\ prng.pos > k * (n + 1)

\* C3: a chain correlated above 0.5 with a pool member is rejected: pool and
\* slot index stay, and the next attempt is for the same slot, with values
\* drawn anew from the PRNG.
C3_RejectKeepsPoolAndSlot ==
    /\ [][(pc = "check" /\ \E i \in 1..Len(pool) : Correlated(w, pool[i])) =>
            /\ pool' = pool
            /\ n_chain' = n_chain
            /\ n_chain' < k
            /\ pc' = "loop"]_vars
    /\ [][(pc = "loop" /\ pc' = "search") =>
            /\ n_chain' = n_chain
            /\ pool' = pool
            /\ prng'.pos = prng.pos + n + 1
            /\ cma_options'.seed = MT(prng.seed, prng.pos + 1)
            /\ \A j \in 1..n :
                 init_state'[j] = normal([seed |-> prng.seed, pos |-> prng.pos + 1], n)[j]
            /\ \A c \in 1..NumChallenges :
                 current_challenges'[c] = linearized_challenges[c][n_chain + 1]]_vars

\* C3 witness: the second slot was attempted, rejected, and attempted again.
C3_Witness ==
    /\ pc = "search"
    /\ n_chain = 1
    /\ Len(pool) = 1
    /\ prng.pos = 3 * (n + 1)
    /\ Correlated(w, pool[1])

\* C4: a chain whose absolute correlation with every pool member is at most
\* 0.5 (any chain when the pool is empty) is appended at the end of the pool,
\* the members stay and the slot index advances by one.
C4_AcceptAppends ==
    [][(pc = "check" /\ \A i \in 1..Len(pool) : Uncorrelated(w, pool[i])) =>
          /\ pool' = pool \o <<w>>
          /\ n_chain' = n_chain + 1
          /\ pc' = "loop"]_vars

\* C4 witness: a second chain with correlation exactly 1/2 in absolute value
\* to the first one was appended.
C4_Witness ==
    /\ pc = "loop"
    /\ Len(pool) = 2
    /\ n_chain = 2
    /\ w = pool[2]
    /\ LET r == pearsonr(pool[1], pool[2])
       IN  r.den2 > 0 /\ 4 * r.num * r.num = r.den2

\* ----------------------------------------------------- objective claims
\* The indicator vector of candidate i: 1 where |w . challenge| > epsilon.
Indicator(i) ==
    [c \in 1..NumChallenges |->
        IF Abs(Dot(SubSeq(state[i], 1, n), current_challenges[c])) > state[i][n + 1]
        THEN 1 ELSE 0]

\* Covariance and variances of two vectors from their pairwise differences.
PairCov(x, y) ==
    SumSeq([c \in 1..Len(x) |->
        SumSeq([d \in 1..Len(x) |->
            IF c < d THEN (x[c] - x[d]) * (y[c] - y[d]) ELSE 0])])

\* q / Scale is corr(x, y) rounded towards zero to a multiple of 1 / Scale.
IsCorr(q, x, y) ==
    LET cv == PairCov(x, y)
        dd == PairCov(x, x) * PairCov(y, y)
    IN  /\ dd > 0
        /\ (cv > 0 => q >= 0) /\ (cv < 0 => q <= 0)
        /\ q * q * dd <= Scale * Scale * cv * cv
        /\ Scale * Scale * cv * cv < (Abs(q) + 1) * (Abs(q) + 1) * dd

Undefined(x, y) == PairCov(x, x) * PairCov(y, y) = 0

\* C5 as claimed: every candidate's cost is 1 - |corr|, so that a perfect
\* correlation of either sign costs zero.
C5_CostIsOneMinusAbsCorr ==
    pc = "evaluated" =>
        \A i \in 1..PopSize :
            LET x == Indicator(i)
            IN  IF Undefined(x, puf_reliabilities) THEN costs[i].nan
                ELSE /\ ~costs[i].nan
                     /\ Scale - costs[i].v >= 0
                     /\ IsCorr(Scale - costs[i].v, x, puf_reliabilities)

\* C5 amended: every candidate's cost is |1 - corr|: zero for a perfect
\* positive correlation, 2 for a perfect negative one.
C5_CostIsAbsOneMinusCorr ==
    pc = "evaluated" =>
        /\ Len(costs) = PopSize
        /\ \A i \in 1..PopSize :
            LET x == Indicator(i)
            IN  IF Undefined(x, puf_reliabilities) THEN costs[i].nan
                ELSE /\ ~costs[i].nan
                     /\ costs[i].v >= 0
                     /\ IsCorr(Scale - costs[i].v, x, puf_reliabilities)
                     /\ (costs[i].v = 0 =>
                           PairCov(x, puf_reliabilities) > 0)
                     /\ (PairCov(x, puf_reliabilities) < 0
                           /\ IsCorr(-Scale, x, puf_reliabilities)
                           => costs[i].v = 2 * Scale)

\* C5 witness: one candidate is perfectly correlated, another perfectly
\* anticorrelated, and both have been evaluated.
C5_Witness ==
    /\ pc = "evaluated"
    /\ \E i \in 1..PopSize : \E j \in 1..PopSize :
          /\ IsCorr(Scale, Indicator(i), puf_reliabilities)
          /\ IsCorr(-Scale, Indicator(j), puf_reliabilities)
          /\ costs[i] = F(0)
          /\ costs[j] = F(2 * Scale)

\* C6 as claimed: a candidate whose indicator vector is constant still gets
\* a defined cost that can be ordered against the other costs.
C6_ConstantIndicatorHasCost ==
    pc = "evaluated" =>
        \A i \in 1..PopSize :
            PairCov(Indicator(i), Indicator(i)) = 0 =>
                /\ ~costs[i].nan
                /\ \A j \in 1..PopSize :
                      ~costs[j].nan =>
                          (costs[i].v <= costs[j].v \/ costs[j].v <= costs[i].v)

\* ------------------------------------------------- stagnation rule claims
\* Indices of the trailing window of abort_iter entries of hist
Window ==
    {i \in 1..Len(hist) : i > Len(hist) - abort_iter}

\* the spread (max - min) of the trailing window is below abort_delta
SmallSpread ==
    \A i \in Window : \A j \in Window : hist[i] - hist[j] < abort_delta

StrictlyDecreasing ==
    \A i \in 1..(Len(hist) - 1) : hist[i + 1] < hist[i]

WindowConstant ==
    \A i \in Window : \A j \in Window : hist[i] = hist[j]

\* C7 as claimed: once the stagnation rule returns true for the run's cost
\* history, no further generation is evaluated in that run.
C7_NoGenerationAfterStagnation ==
    [][(pc = "search" /\ is_iteration_stagnated(hist)) => hist' = hist]_vars

\* C8: is_iteration_stagnated is false below 100 entries and, from 100
\* entries on, true exactly when max - min over the most recent abort_iter
\* entries is strictly below abort_delta.
C8_StagnationRule ==
    hist # <<>> =>
        /\ (Len(hist) < 100 => ~stagnated)
        /\ (Len(hist) >= 100 => (stagnated <=> SmallSpread))

\* C8 witness: the rule fired on a window that is not constant.
C8_Witness ==
    /\ Len(hist) >= 100
    /\ stagnated
    /\ abort_iter >= 2
    /\ ~WindowConstant

\* C9 as claimed: a strictly decreasing history longer than 100 never
\* triggers, whatever the positive abort_delta and abort_iter.
C9_DecreasingNeverStagnates ==
    (StrictlyDecreasing /\ Len(hist) > 100 /\ abort_delta > 0 /\ abort_iter > 0)
        => ~stagnated

\* C9 amended: on a strictly decreasing history longer than 100 the rule
\* triggers exactly when the improvement across the trailing window (its
\* first entry minus its last) is below abort_delta.
C9_DecreasingStagnatesOnSmallGain ==
    (StrictlyDecreasing /\ Len(hist) > 100 /\ abort_delta > 0 /\ abort_iter > 0)
        => (stagnated <=>
              hist[Len(hist) - abort_iter + 1] - hist[Len(hist)] < abort_delta)

\* C9 witness: a strictly decreasing history longer than 100 whose window
\* of at least two entries improves by abort_delta or more: no stagnation.
C9_Witness ==
    /\ StrictlyDecreasing
    /\ Len(hist) > 100
    /\ abort_iter >= 2
    /\ hist[Len(hist) - abort_iter + 1] - hist[Len(hist)] >= abort_delta
    /\ ~stagnated

\* C10 as claimed: with a constant trailing window the rule is false for
\* every length up to 100 and true for every length above 100.
C10_ConstantWindowFiresAbove100 ==
    (hist # <<>> /\ WindowConstant /\ abort_delta > 0)
        => (stagnated <=> Len(hist) > 100)

\* C10 amended: with a constant trailing window the rule is false for every
\* length below 100 and true for every length from 100 on.
C10_ConstantWindowFiresFrom100 ==
    (hist # <<>> /\ WindowConstant /\ abort_delta > 0)
        => (stagnated <=> Len(hist) >= 100)

\* C10 witness: the rule fired at exactly 100 entries on a constant window
\* of at least two entries.
C10_Witness ==
    /\ Len(hist) = 100
    /\ abort_iter >= 2
    /\ WindowConstant
    /\ stagnated

\* C11: canonicalizing a chain whose first weight is non-negative returns it
\* unchanged, and canonicalizing the negation of such a chain returns the
\* chain itself, also when the first weight is zero.
C11_CanonicalOfNegationIsOriginal ==
    (arg # <<>> /\ arg[1] >= 0) =>
        /\ (Len(ret) >= 1 => ret[1] = arg)
        /\ (Len(ret) >= 2 => ret[2] = arg)

\* The majority vote over the repetitions of challenge c (the smaller value
\* on a tie) and the XOR model's output on it, written out directly
Majority(c) ==
    IF 2 * Cardinality({j \in 1..Len(responses[c]) : responses[c][j] = 1})
           > Len(responses[c])
    THEN 1 ELSE -1

XorOutput(m, c) ==
    LET d == [l \in 1..Len(m) |-> Dot(m[l], transform(challenges, Len(m))[c][l])]
        negative == Cardinality({l \in 1..Len(m) : d[l] < 0})
    IN  IF \E l \in 1..Len(m) : d[l] = 0 THEN 0
        ELSE IF negative % 2 = 0 THEN 1 ELSE -1

\* number of challenges on which model m agrees with the majority vote
Agreement(m) ==
    Cardinality({c \in 1..NumChallenges : XorOutput(m, c) = Majority(c)})

\* C12: once the pool is complete, the first chain and only the first chain
\* is negated, exactly when the assembled model agrees with the majority
\* vote on less than half of the challenges; chains 2..k of the returned
\* model are the pool's, and the returned model is not changed again.
C12_FlipsOnlyFirstChainWhenBelowHalf ==
    [][ /\ (pc = "test" /\ pc' = "done") =>
              /\ Len(model') = Len(model)
              /\ model'[1] = IF 2 * Agreement(model) < NumChallenges
                             THEN Neg(model[1]) ELSE model[1]
              /\ \A i \in 2..Len(model) : model'[i] = pool[i] /\ pool[i] = model[i]
        /\ (pc = "done" => model' = model) ]_vars

\* a returned model whose first chain was negated (accepted chains have a
\* non-negative first weight) next to a second chain that was not
C12_Witness ==
    /\ pc = "done"
    /\ Len(model) = k
    /\ model[1][1] < 0
    /\ model[2] = Canonical(model[2])
    /\ model[2] # Neg(model[2])

\* C13: the orientation correction never lowers the agreement with the
\* majority vote, and a model that agrees on no challenge agrees on all of
\* them after the flip.
C13_FlipNeverLowersAgreement ==
    [][ (pc = "test" /\ pc' = "done") =>
            /\ Agreement(model') >= Agreement(model)
            /\ (Agreement(model) = 0 => Agreement(model') = NumChallenges) ]_vars

\* number of entries of row equal to v
Occurrences(row, v) == Cardinality({j \in DOMAIN row : row[j] = v})

\* C14: for a matrix in {0,1}, reliabilities_PUF returns one score per row,
\* in row order, equal to |repetitions/2 - number of ones in the row|
\* (scores are kept in halves: |repetitions - 2 * ones|).
C14_ScoreIsDeviationFromMidpoint ==
    pc = "measured" =>
        /\ DOMAIN ret[2] = DOMAIN arg[2]
        /\ \A r \in DOMAIN arg[2] :
              LET ones == Occurrences(arg[2][r], 1)
                  reps == Len(arg[2][r])
              IN  ret[2][r] = IF reps >= 2 * ones THEN reps - 2 * ones
                              ELSE 2 * ones - reps

\* a {0,1} matrix whose rows get three different scores, in an order that is
\* not sorted
C14_Witness ==
    /\ pc = "measured"
    /\ ret[2][1] < ret[2][2]
    /\ ret[2][3] < ret[2][1]

\* C15: the reliabilities computed from the {+1,-1} encoding of a matrix and
\* from its {0,1} encoding are equal, for either polarity of the {0,1}
\* encoding and also when the {+1,-1} matrix holds no -1.
C15_EncodingAgnostic ==
    pc = "measured" => ret[1] = ret[2]

\* a {+1,-1} matrix without any -1, measured again with +1 written as 0
C15_Witness ==
    /\ pc = "measured"
    /\ \A r \in DOMAIN arg[1] : Occurrences(arg[1][r], -1) = 0
    /\ \A r \in DOMAIN arg[2] : Occurrences(arg[2][r], 1) = 0

\* C16: a row whose repetitions all agree gets repetitions/2, and no row
\* gets more.
C16_AllAgreeIsMaximal ==
    \A i \in DOMAIN ret : \A r \in DOMAIN ret[i] :
        /\ ret[i][r] <= Len(arg[i][r])
        /\ (\E v \in {-1, 0, 1} : Occurrences(arg[i][r], v) = Len(arg[i][r]))
               => ret[i][r] = Len(arg[i][r])

\* a matrix with an all-agreeing row of each value next to a row that does
\* not agree, in both encodings
C16_Witness ==
    /\ pc = "measured"
    /\ \E r \in DOMAIN arg[1] : Occurrences(arg[1][r], 1) = Len(arg[1][r])
    /\ \E r \in DOMAIN arg[1] : Occurrences(arg[1][r], -1) = Len(arg[1][r])
    /\ \E r \in DOMAIN arg[1] : ret[1][r] < Len(arg[1][r])

\* C17: a row whose repetitions are split half and half between the two
\* response values gets zero.
C17_EvenSplitIsZero ==
    \A i \in DOMAIN ret : \A r \in DOMAIN ret[i] :
        (\E v \in {-1, 0, 1} : 2 * Occurrences(arg[i][r], v) = Len(arg[i][r]))
            => ret[i][r] = 0

\* an evenly split row next to a row that is not, measured in both encodings
C17_Witness ==
    /\ pc = "measured"
    /\ \E r \in DOMAIN arg[2] :
          2 * Occurrences(arg[2][r], 1) = Len(arg[2][r]) /\ ret[2][r] = 0
    /\ \E r \in DOMAIN arg[2] : ret[2][r] > 0

\* |weights of candidate i . linearized challenge c|
AbsDelay(i, c) ==
    LET d == SumSeq([j \in 1..n |-> state[i][j] * current_challenges[c][j]])
    IN  IF d < 0 THEN -d ELSE d

\* C18: the indicator of candidate i on challenge c is true exactly when the
\* absolute delay difference is strictly greater than the last component of
\* candidate i's own solution vector.
C18_ThresholdedWithOwnEpsilon ==
    pc = "evaluated" =>
        /\ Len(model_reliabilities) = Len(current_challenges)
        /\ \A c \in 1..Len(current_challenges) :
              /\ Len(model_reliabilities[c]) = Len(state)
              /\ \A i \in 1..Len(state) :
                    model_reliabilities[c][i] = (AbsDelay(i, c) > state[i][n + 1])

\* two candidates with the same weights and different epsilons whose
\* indicators differ on a challenge
C18_Witness ==
    /\ pc = "evaluated"
    /\ SubSeq(state[1], 1, n) = SubSeq(state[2], 1, n)
    /\ state[1][n + 1] # state[2][n + 1]
    /\ \E c \in 1..Len(current_challenges) :
          model_reliabilities[c][1] # model_reliabilities[c][2]

\* C19: a training set whose response matrix has not one row per challenge
\* is rejected before an optimizer is constructed or run.
C19_MismatchRejectedBeforeSearch ==
    Len(responses) # Len(challenges) =>
        /\ cma = NoCma
        /\ pc \notin {"search", "raised"}

\* C20: the optimizer an attempt runs was constructed with the seed drawn
\* from the learner's PRNG for that attempt.
C20_OptimizerSeededFromPrng ==
    pc = "search" =>
        /\ cma.seed # "unset"
        /\ cma.seed = cma_options.seed

\* C21: the oracle reliability vector and the linearized challenges keep the
\* value computed at construction through every population evaluation,
\* attempt and rejection.
C21_StaticDataNeverModified ==
    /\ puf_reliabilities = reliabilities_PUF(responses)
    /\ linearized_challenges = transform(challenges, k)
    /\ Len(puf_reliabilities) = NumChallenges

\* a retry is under way after a rejection (w is correlated with the pool and
\* is not a member), and a population has been evaluated
C21_Witness ==
    /\ pc = "search"
    /\ costs # <<>>
    /\ w # <<>>
    /\ ~IsNew(w, pool)
    /\ \A i \in DOMAIN pool : pool[i] # w

\* C22: when the returned model still agrees with the majority vote on less
\* than half of the challenges, learn() has returned it and the learner
\* holds that agreement for its caller.
C22_LowAgreementSurfaced ==
    (pc = "done" /\ 2 * Agreement(model) < NumChallenges) =>
        /\ Len(model) = k
        /\ "accuracy" \in DOMAIN stats
        /\ stats.accuracy = Agreement(model)

\* C23: as long as a slot is open another attempt can always start, whatever
\* number of attempts was rejected before, and learn() eventually returns a
\* model of k chains.
C23_RetriesUntilDone ==
    /\ []((pc = "loop" /\ n_chain < k) => ENABLED StartAnotherAttempt)
    /\ <>(pc = "done" /\ Len(model) = k)

\* a further attempt for a slot is under way after a rejected one: w is
\* correlated with the pool without being a member
C23_Witness ==
    /\ pc = "search"
    /\ n_chain < k
    /\ w # <<>>
    /\ ~IsNew(w, pool)
    /\ \A i \in DOMAIN pool : pool[i] # w
    /\ cma.initial_solution = init_state

\* C24: once learn() has returned, the learner's iteration count and stop
\* reason are those of the run: at least one generation per chain learned,
\* and a stop reason that is set.
C24_CountersReflectRun ==
    pc = "done" =>
        /\ stats.num_iterations >= k
        /\ stats.stops # ""

\* C25: every pool member has n weights and a non-negative first weight, and
\* no member changes while the pool is being filled.
C25_PoolMembersCanonicalAndFrozen ==
    [][ /\ (pc' \notin {"done"}) =>
              \A i \in DOMAIN pool' : Len(pool'[i]) = n /\ pool'[i][1] >= 0
        /\ (pc \notin {"test", "done"}) =>
              \A i \in DOMAIN pool : pool'[i] = pool[i] ]_vars

\* the pool is complete and every member has a positive first weight
C25_Witness ==
    /\ pc = "test"
    /\ Len(pool) = k
    /\ \A i \in DOMAIN pool : pool[i][1] > 0

\* C26: objective() returns one cost per candidate, and the cost of a
\* candidate in the batch is the cost it gets in a population of its own.
C26_BatchEqualsSingle ==
    pc = "evaluated" =>
        /\ Len(costs) = Len(state)
        /\ \A i \in 1..Len(state) : costs[i] = objective(<<state[i]>>)[1]

\* a batch whose candidates get different defined costs
C26_Witness ==
    /\ pc = "evaluated"
    /\ ~costs[1].nan
    /\ ~costs[2].nan
    /\ costs[1] # costs[2]

\* C27: the slot index is the pool size and at most k; a step of the search
\* loop leaves the pool as it is or appends one chain behind the others.
C27_SlotIsPoolSizeAndPoolOnlyGrows ==
    [][ /\ n_chain' = Len(pool')
        /\ n_chain' <= k
        /\ pc \in {"loop", "search", "check"} =>
              /\ Len(pool') \in {Len(pool), Len(pool) + 1}
              /\ SubSeq(pool', 1, Len(pool)) = pool ]_vars

\* the loop has filled the pool with k chains, the first two different
C27_Witness ==
    /\ pc = "loop"
    /\ n_chain = k
    /\ Len(pool) = k
    /\ pool[1] # pool[2]

\* the challenges of slot s as one chain sees them
SlotSlice(s) ==
    [c \in 1..NumChallenges |-> transform(challenges, k)[c][s]]

\* C28: while an optimizer run is under way, current_challenges is the
\* linearized slice of the slot being attempted, whose index is the pool
\* size, also on a retry.
C28_ObjectiveSeesCurrentSlot ==
    pc = "search" =>
        /\ current_challenges = SlotSlice(Len(pool) + 1)
        /\ \A s \in 1..k : s # Len(pool) + 1 => current_challenges # SlotSlice(s)

\* a population is evaluated during a retry for the second slot
C28_Witness ==
    /\ pc = "search"
    /\ Len(pool) = 1
    /\ w # pool[1]
    /\ ~IsNew(w, pool)
    /\ state # <<>>
    /\ costs = objective(state)

\* C29: when an epoch of train ends, every training sample was in exactly
\* one of its mini-batches and no mini-batch was empty; the returned list
\* has one loss per epoch.
C29_BatchesPartitionTrainingSet ==
    /\ (pc = "epoch" /\ train.t >= 1) =>
          /\ \A s \in 1..train.len : train.fed[s] = 1
          /\ \A b \in DOMAIN train.batches : train.batches[b] # {}
    /\ pc = "returned" => Len(train.losses) = train.epochs

\* C30: what generate_reliable_challenges_for_IPUF returns is num_chals
\* challenge rows and as many response rows, row i of the responses being
\* the measurements of challenge i, each with |mean| >= 0.5; it returns only
\* once more than num_chals reliable challenges were found.
C30_ReturnsNumChalsReliableRows ==
    pc = "generated" =>
        /\ Len(gen.candidate_chals) = gen.num_chals
        /\ Len(gen.candidate_resps) = gen.num_chals
        /\ gen.chal_count > gen.num_chals
        /\ \A i \in 1..gen.num_chals :
              /\ \E kind \in SampleKinds :
                    /\ gen.candidate_chals[i] = SampleChallenge(kind)
                    /\ gen.candidate_resps[i] = SampleResponses(kind)
              /\ 2 * SumSeq(gen.candidate_resps[i]) >= Repetitions
                  \/ 2 * SumSeq(gen.candidate_resps[i]) <= 0 - Repetitions

\* the rows returned were gathered over several rounds and are of both
\* polarities
C30_Witness ==
    /\ pc = "generated"
    /\ gen.rounds >= 2
    /\ gen.num_chals >= 2
    /\ gen.candidate_resps[1] # gen.candidate_resps[gen.num_chals]
====
